---- MODULE Spec2Model ----
(***************************************************************************)
(* Model of generate_embeddings.py: the one-shot job that backfills the    *)
(* embedding column of the resource_embeddings table.                      *)
(*                                                                         *)
(* The database is modelled by two copies of the table: `durable` is the   *)
(* committed content, `view` is what the job's single connection sees      *)
(* (committed content plus the writes of its open transaction).            *)
(***************************************************************************)
EXTENDS FiniteSets, Integers, Naturals, Sequences, TLC

(***************************************************************************)
(* Bounds of the model.                                                    *)
(***************************************************************************)
MaxRows == 3

(***************************************************************************)
(* Python values held in a resource payload.  A value is a tagged record   *)
(* so that values of different Python types can live in one set.           *)
(***************************************************************************)
PyS(s) == [t |-> "str", v |-> s]
PyTrue == [t |-> "bool", v |-> "true"]
PyFalse == [t |-> "bool", v |-> "false"]
PyNone == [t |-> "null", v |-> ""]

\* str(value), as the f-string applies it to each substituted value
PyStr(x) ==
  IF x.t = "str" THEN x.v
  ELSE IF x.t = "bool" THEN (IF x.v = "true" THEN "True" ELSE "False")
  ELSE IF x.t = "null" THEN "None"
  ELSE x.v

\* truth value of a Python value, as `if value` tests it
PyTruthy(x) ==
  IF x.t = "str" THEN x.v # ""
  ELSE IF x.t = "bool" THEN x.v = "true"
  ELSE IF x.t = "null" THEN FALSE
  ELSE x.v # "0"

\* a payload is a dict (kind "dict", items a function from keys to values)
\* or the Python None that a NULL resource_data column is fetched as
Dict(f) == [kind |-> "dict", items |-> f]
NoPayload == [kind |-> "none"]

\* dict.get(key, default)
DictGet(d, key, default) ==
  IF key \in DOMAIN d.items THEN d.items[key] ELSE default

Unknown == PyS("Unknown")

\* variant: the Team and Region slots read each other's key
FormatResourceTextSwapped(resource_data) ==
  IF resource_data.kind = "dict"
  THEN << "EC2 Instance Configuration:",
          "Instance Type: " \o PyStr(DictGet(resource_data, "instance_type", Unknown)),
          "State: " \o PyStr(DictGet(resource_data, "state", Unknown)),
          "Environment: " \o PyStr(DictGet(resource_data, "environment", Unknown)),
          "Team: " \o PyStr(DictGet(resource_data, "region", Unknown)),
          "Region: " \o PyStr(DictGet(resource_data, "team", Unknown)),
          "Public IP: " \o (IF PyTruthy(DictGet(resource_data, "has_public_ip", PyNone))
                            THEN "Yes" ELSE "No") >>
  ELSE << "None" >>

\* format_resource_text: the rendered text, as the sequence of its lines.
\* A payload that is not a dict has no .get, the AttributeError is caught
\* and str(resource_data) is returned.
format_resource_text(resource_data) ==
  IF resource_data.kind = "dict"
  THEN << "EC2 Instance Configuration:",
          "Instance Type: " \o PyStr(DictGet(resource_data, "instance_type", Unknown)),
          "State: " \o PyStr(DictGet(resource_data, "state", Unknown)),
          "Environment: " \o PyStr(DictGet(resource_data, "environment", Unknown)),
          "Team: " \o PyStr(DictGet(resource_data, "team", Unknown)),
          "Region: " \o PyStr(DictGet(resource_data, "region", Unknown)),
          "Public IP: " \o (IF PyTruthy(DictGet(resource_data, "has_public_ip", PyNone))
                            THEN "Yes" ELSE "No") >>
  ELSE << "None" >>

(***************************************************************************)
(* Embeddings.  The model's vector for a text is identified by the text;   *)
(* the column value is NULL or a vector.                                   *)
(***************************************************************************)
NullEmbedding == [isnull |-> TRUE, of |-> <<>>]
StaleEmbedding == [isnull |-> FALSE, of |-> <<"stale">>]

\* self.model.encode(text).tolist()
Encode(text) == [isnull |-> FALSE, of |-> text]

(***************************************************************************)
(* The resource_embeddings table: a set of rows.                           *)
(***************************************************************************)
Row(id, rtype, rid, data, emb) ==
  [id |-> id, rtype |-> rtype, rid |-> rid, data |-> data, emb |-> emb]

Pairs(tbl) == { <<r.rtype, r.rid>> : r \in tbl }

\* variant: the INSERT without its ON CONFLICT clause
InsertAlways(tbl, id, rtype, rid, data) ==
  tbl \cup { Row(id, rtype, rid, data, NullEmbedding) }

\* INSERT ... VALUES (rtype, rid, data, NULL)
\*   ON CONFLICT (resource_type, resource_id) DO NOTHING
InsertOnConflictDoNothing(tbl, id, rtype, rid, data) ==
  IF <<rtype, rid>> \in Pairs(tbl)
  THEN tbl
  ELSE tbl \cup { Row(id, rtype, rid, data, NullEmbedding) }

\* UPDATE resource_embeddings SET embedding = vec WHERE id = id
UpdateEmbedding(tbl, id, vec) ==
  { IF r.id = id THEN [r EXCEPT !.emb = vec] ELSE r : r \in tbl }

\* SELECT id, resource_type, resource_id, resource_data ... ORDER BY id
RECURSIVE SelectOrderById(_)
SelectOrderById(tbl) ==
  IF tbl = {} THEN << >>
  ELSE LET first == CHOOSE r \in tbl : \A q \in tbl : r.id <= q.id
       IN << [id |-> first.id, rtype |-> first.rtype,
              rid |-> first.rid, data |-> first.data] >>
          \o SelectOrderById(tbl \ {first})

\* SELECT COUNT(*), COUNT(embedding),
\*        COUNT(*) FILTER (WHERE embedding IS NOT NULL)
CountQuery(tbl) ==
  << Cardinality(tbl),
     Cardinality({ r \in tbl : ~r.emb.isnull }),
     Cardinality({ r \in tbl : ~r.emb.isnull }) >>

\* sample_resources of create_sample_embeddings
sample_resources ==
  << << "ec2_instance", "i-sample-1",
        Dict([instance_type |-> PyS("t3.micro"), state |-> PyS("running"),
              environment |-> PyS("production"), team |-> PyS("backend"),
              region |-> PyS("us-east-1"), has_public_ip |-> PyTrue]) >>,
     << "ec2_instance", "i-sample-2",
        Dict([instance_type |-> PyS("t3.small"), state |-> PyS("running"),
              environment |-> PyS("production"), team |-> PyS("data"),
              region |-> PyS("us-east-1"), has_public_ip |-> PyFalse]) >>,
     << "ec2_instance", "i-sample-3",
        Dict([instance_type |-> PyS("t3.medium"), state |-> PyS("stopped"),
              environment |-> PyS("development"), team |-> PyS("frontend"),
              region |-> PyS("us-west-2"), has_public_ip |-> PyTrue]) >> >>


\* the k-th statement of the insert loop of create_sample_embeddings
SeedInsertStmt(tbl, id, k) ==
  InsertOnConflictDoNothing(tbl, id, sample_resources[k][1],
                            sample_resources[k][2], sample_resources[k][3])

(***************************************************************************)
(* State.                                                                  *)
(***************************************************************************)
VARIABLES
  pc,         \* position of the process in main / update_embeddings
  model,      \* self.model is set
  conn,       \* "none" (conn = None), "open" or "closed"
  durable,    \* committed content of resource_embeddings
  view,       \* content seen by the connection (with its uncommitted writes)
  nextId,     \* next value of the id sequence
  resources,  \* the fetched rows
  i,          \* index of the row being processed (1-based)
  seedK,      \* index of the next sample resource to insert
  vec,        \* embedding_vector of the current row
  exc,        \* an exception is propagating
  fault,      \* the failure of the environment in this run, "none" if none
  exitCode,   \* process exit status, -1 while running
  counts,     \* (total, with_embeddings, non_null) read by verify_embeddings
  issued,     \* kinds of statement executed on the connection
  start,      \* content of the table when the run started
  fmtIn,      \* argument of format_resource_text
  fmtOut,     \* its result
  seedPass,   \* pass of the seed inserts being executed
  afterOnce   \* table after the first pass of the seed inserts

vars == << pc, model, conn, durable, view, nextId, resources, i, seedK, vec,
           exc, fault, exitCode, counts, issued, start,
           fmtIn, fmtOut, seedPass, afterOnce >>

dbVars == << durable, view, nextId >>
loopVars == << resources, i, seedK, vec >>
auxVars == << start, fmtIn, fmtOut, seedPass, afterOnce >>

(***************************************************************************)
(* Tables the job can start on: rows created by the upstream ingestion,    *)
(* ids 1..n, distinct (resource_type, resource_id) pairs.                  *)
(***************************************************************************)
FullPayload ==
  Dict([instance_type |-> PyS("m5.large"), state |-> PyS("running"),
        environment |-> PyS("staging"), team |-> PyS("platform"),
        region |-> PyS("eu-west-1"), has_public_ip |-> PyTrue])

PartialPayload ==
  Dict([instance_type |-> PyS("c5.xlarge"), state |-> PyNone])

RowPayloads == { FullPayload, PartialPayload, NoPayload }

ExternalRid(k) == "i-ext-" \o ToString(k)

StartTables ==
  UNION { { { Row(k, "ec2_instance", ExternalRid(k), d[k], e[k]) : k \in 1..n }
            : d \in [1..n -> RowPayloads],
              e \in [1..n -> {NullEmbedding, StaleEmbedding}] }
          : n \in 0..MaxRows }

Idle ==
  /\ model = FALSE
  /\ conn = "none"
  /\ resources = << >>
  /\ i = 0
  /\ seedK = 1
  /\ vec = NullEmbedding
  /\ exc = FALSE
  /\ fault = "none"
  /\ exitCode = -1
  /\ counts = << >>
  /\ issued = {}

Init ==
  /\ pc = "main"
  /\ Idle
  /\ start \in StartTables
  /\ durable = start
  /\ view = start
  /\ nextId = Cardinality(start) + 1
  /\ fmtIn = NoPayload
  /\ fmtOut = << >>
  /\ seedPass = 0
  /\ afterOnce = {}

(***************************************************************************)
(* main and load_model.                                                    *)
(***************************************************************************)
\* main: the generator is created and load_model is called
MainStart ==
  /\ pc = "main"
  /\ pc' = "load_model"
  /\ UNCHANGED << model, conn, dbVars, loopVars, exc, fault, exitCode,
                  counts, issued, auxVars >>

\* variant: the handler of load_model logs and does not re-raise
LoadModelSwallow ==
  /\ pc = "load_model"
  /\ \E ok \in BOOLEAN :
       /\ model' = ok
       /\ fault' = IF ok THEN fault ELSE "load"
       /\ pc' = "connect"
       /\ exc' = exc
  /\ UNCHANGED << conn, dbVars, loopVars, exitCode, counts, issued, auxVars >>

\* load_model: SentenceTransformer(...) returns the model or raises; the
\* handler logs and re-raises, and the exception reaches main's handler
LoadModel ==
  /\ pc = "load_model"
  /\ \E ok \in BOOLEAN :
       IF ok
       THEN /\ model' = TRUE
            /\ pc' = "connect"
            /\ UNCHANGED << exc, fault >>
       ELSE /\ exc' = TRUE
            /\ fault' = "load"
            /\ pc' = "main_except"
            /\ UNCHANGED model
  /\ UNCHANGED << conn, dbVars, loopVars, exitCode, counts, issued, auxVars >>

(***************************************************************************)
(* update_embeddings.                                                      *)
(***************************************************************************)
\* psycopg2.connect(...) and conn.cursor()
Connect ==
  /\ pc = "connect"
  /\ \E ok \in BOOLEAN :
       IF ok
       THEN /\ conn' = "open"
            /\ view' = durable
            /\ pc' = "select"
            /\ UNCHANGED << exc, fault >>
       ELSE /\ exc' = TRUE
            /\ fault' = "connect"
            /\ pc' = "except"
            /\ UNCHANGED << conn, view >>
  /\ UNCHANGED << model, durable, nextId, loopVars, exitCode, counts, issued,
                  auxVars >>

\* the SELECT ... ORDER BY id, fetchall, and the test `if not resources`
Select ==
  /\ pc = "select"
  /\ \E ok \in BOOLEAN :
       IF ok
       THEN /\ resources' = SelectOrderById(view)
            /\ issued' = issued \cup {"select"}
            /\ i' = 1
            /\ pc' = IF resources' = << >> THEN "seed" ELSE "embed"
            /\ UNCHANGED << exc, fault >>
       ELSE /\ exc' = TRUE
            /\ fault' = "select"
            /\ pc' = "except"
            /\ UNCHANGED << resources, i, issued >>
  /\ UNCHANGED << model, conn, dbVars, seedK, vec, exitCode, counts, auxVars >>

\* create_sample_embeddings: one INSERT of the loop over sample_resources
SeedInsert ==
  /\ pc = "seed"
  /\ \E ok \in BOOLEAN :
       IF ok
       THEN /\ view' = SeedInsertStmt(view, nextId, seedK)
            /\ nextId' = nextId + 1
            /\ issued' = issued \cup {"insert"}
            /\ seedK' = seedK + 1
            /\ pc' = IF seedK = Len(sample_resources) THEN "seed_commit" ELSE "seed"
            /\ UNCHANGED << exc, fault >>
       ELSE /\ exc' = TRUE
            /\ fault' = "insert"
            /\ pc' = "except"
            /\ UNCHANGED << view, nextId, issued, seedK >>
  /\ UNCHANGED << model, conn, durable, resources, i, vec, exitCode, counts,
                  auxVars >>

\* create_sample_embeddings: `conn.commit()`.  The method has no name conn
\* (its parameter is cursor, and the module has no global conn): evaluating
\* the name raises NameError, nothing is committed.
SeedCommit ==
  /\ pc = "seed_commit"
  /\ exc' = TRUE
  /\ pc' = "except"
  /\ UNCHANGED << model, conn, dbVars, loopVars, fault, exitCode, counts,
                  issued, auxVars >>

\* loop body, first half: format_resource_text and get_embedding for row i.
\* get_embedding raises RuntimeError when the model is not loaded, and
\* re-raises whatever encode raises.
GetEmbedding ==
  /\ pc = "embed"
  /\ \E ok \in BOOLEAN :
       IF model /\ ok
       THEN /\ vec' = Encode(format_resource_text(resources[i].data))
            /\ pc' = "update"
            /\ UNCHANGED << exc, fault >>
       ELSE /\ exc' = TRUE
            /\ fault' = IF model THEN "embed" ELSE fault
            /\ pc' = "except"
            /\ UNCHANGED vec
  /\ UNCHANGED << model, conn, dbVars, resources, i, seedK, exitCode, counts,
                  issued, auxVars >>

\* variant: the loop stops one row early
LoopExhaustedEarly(k, rows) == k >= Len(rows) - 1

\* `for ... in enumerate(resources)`: row k was the last one
LoopExhausted(k, rows) == k = Len(rows)

\* variant: the connection is in autocommit mode
UpdateRowAutocommit ==
  /\ pc = "update"
  /\ \E ok \in BOOLEAN :
       IF ok
       THEN /\ view' = UpdateEmbedding(view, resources[i].id, vec)
            /\ durable' = view'
            /\ issued' = issued \cup {"update"}
            /\ i' = i + 1
            /\ pc' = IF LoopExhausted(i, resources) THEN "commit" ELSE "embed"
            /\ UNCHANGED << exc, fault >>
       ELSE /\ exc' = TRUE
            /\ fault' = "update"
            /\ pc' = "except"
            /\ UNCHANGED << view, durable, issued, i >>
  /\ UNCHANGED << model, conn, nextId, resources, seedK, vec, exitCode,
                  counts, auxVars >>

\* loop body, second half: the UPDATE of row i, then the next row or, after
\* the last row, the commit
UpdateRow ==
  /\ pc = "update"
  /\ \E ok \in BOOLEAN :
       IF ok
       THEN /\ view' = UpdateEmbedding(view, resources[i].id, vec)
            /\ issued' = issued \cup {"update"}
            /\ i' = i + 1
            /\ pc' = IF LoopExhausted(i, resources) THEN "commit" ELSE "embed"
            /\ UNCHANGED << exc, fault >>
       ELSE /\ exc' = TRUE
            /\ fault' = "update"
            /\ pc' = "except"
            /\ UNCHANGED << view, issued, i >>
  /\ UNCHANGED << model, conn, durable, nextId, resources, seedK, vec,
                  exitCode, counts, auxVars >>

\* conn.commit(): the writes of the transaction become durable, or the
\* commit fails and none does
Commit ==
  /\ pc = "commit"
  /\ \E ok \in BOOLEAN :
       IF ok
       THEN /\ durable' = view
            /\ issued' = issued \cup {"commit"}
            /\ pc' = "verify"
            /\ UNCHANGED << exc, fault >>
       ELSE /\ exc' = TRUE
            /\ fault' = "commit"
            /\ pc' = "except"
            /\ UNCHANGED << durable, issued >>
  /\ UNCHANGED << model, conn, view, nextId, loopVars, exitCode, counts,
                  auxVars >>

\* variant: verify_embeddings guarded by its own handler
VerifyGuarded ==
  /\ pc = "verify"
  /\ \E outcome \in {"ok", "count_fails", "sample_fails"} :
       /\ counts' = IF outcome = "count_fails" THEN counts ELSE CountQuery(view)
       /\ issued' = issued \cup {"count"}
       /\ fault' = IF outcome = "ok" THEN fault ELSE "verify"
       /\ pc' = "finally"
       /\ exc' = exc
  /\ UNCHANGED << model, conn, dbVars, loopVars, exitCode, auxVars >>

\* verify_embeddings: the count query, whose result is read and logged,
\* then the sample query.  The count query may fail; the sample query may
\* fail after the counts have been read; a failure of either propagates
\* into the handler of update_embeddings.
Verify ==
  /\ pc = "verify"
  /\ \E outcome \in {"ok", "count_fails", "sample_fails"} :
       IF outcome = "ok"
       THEN /\ counts' = CountQuery(view)
            /\ issued' = issued \cup {"count"}
            /\ pc' = "finally"
            /\ UNCHANGED << exc, fault >>
       ELSE IF outcome = "sample_fails"
       THEN /\ counts' = CountQuery(view)
            /\ issued' = issued \cup {"count"}
            /\ exc' = TRUE
            /\ fault' = "verify"
            /\ pc' = "except"
       ELSE /\ exc' = TRUE
            /\ fault' = "verify"
            /\ pc' = "except"
            /\ UNCHANGED << counts, issued >>
  /\ UNCHANGED << model, conn, dbVars, loopVars, exitCode, auxVars >>

\* variant: the handler commits instead of rolling back
ExceptHandlerCommits ==
  /\ pc = "except"
  /\ IF conn = "open"
     THEN /\ durable' = view
          /\ issued' = issued \cup {"commit"}
          /\ UNCHANGED view
     ELSE UNCHANGED << durable, view, issued >>
  /\ pc' = "finally"
  /\ UNCHANGED << model, conn, nextId, loopVars, exc, fault, exitCode, counts,
                  auxVars >>

\* except Exception: `if conn: conn.rollback()`, then `raise`
ExceptHandler ==
  /\ pc = "except"
  /\ IF conn = "open"
     THEN /\ view' = durable
          /\ issued' = issued \cup {"rollback"}
     ELSE UNCHANGED << view, issued >>
  /\ pc' = "finally"
  /\ UNCHANGED << model, conn, durable, nextId, loopVars, exc, fault,
                  exitCode, counts, auxVars >>

\* variant: the connection is closed on the normal path only
FinallyLeak ==
  /\ pc = "finally"
  /\ conn' = IF conn = "open" /\ ~exc THEN "closed" ELSE conn
  /\ pc' = IF exc THEN "main_except" ELSE "main_done"
  /\ UNCHANGED << model, dbVars, loopVars, exc, fault, exitCode, counts,
                  issued, auxVars >>

\* finally: `if conn: conn.close()`; then the routine returns, or the
\* exception goes on to main
Finally ==
  /\ pc = "finally"
  /\ conn' = IF conn = "open" THEN "closed" ELSE conn
  /\ pc' = IF exc THEN "main_except" ELSE "main_done"
  /\ UNCHANGED << model, dbVars, loopVars, exc, fault, exitCode, counts,
                  issued, auxVars >>

\* variant: main retries the job instead of exiting
MainExceptRetry ==
  /\ pc = "main_except"
  /\ exc' = FALSE
  /\ pc' = "load_model"
  /\ UNCHANGED << model, conn, dbVars, loopVars, fault, exitCode, counts,
                  issued, auxVars >>

\* main: `except Exception`: log and sys.exit(1)
MainExcept ==
  /\ pc = "main_except"
  /\ exitCode' = 1
  /\ pc' = "exited"
  /\ UNCHANGED << model, conn, dbVars, loopVars, exc, fault, counts, issued,
                  auxVars >>

\* main: update_embeddings returned, the success line is logged and the
\* interpreter exits with status 0
MainDone ==
  /\ pc = "main_done"
  /\ exitCode' = 0
  /\ pc' = "exited"
  /\ UNCHANGED << model, conn, dbVars, loopVars, exc, fault, counts, issued,
                  auxVars >>

\* positions of a live process
Running ==
  { "main", "load_model", "connect", "select", "seed", "seed_commit",
    "embed", "update", "commit", "verify", "except", "finally",
    "main_except", "main_done" }

\* the process is killed from outside: its connection drops and the server
\* aborts the open transaction
KillProcess ==
  /\ pc \in Running
  /\ pc' = "killed"
  /\ fault' = "kill"
  /\ conn' = IF conn = "open" THEN "closed" ELSE conn
  /\ view' = durable
  /\ UNCHANGED << model, durable, nextId, loopVars, exc, exitCode, counts,
                  issued, auxVars >>

Next ==
  \/ MainStart
  \/ LoadModel
  \/ Connect
  \/ Select
  \/ SeedInsert
  \/ SeedCommit
  \/ GetEmbedding
  \/ UpdateRow
  \/ Commit
  \/ Verify
  \/ ExceptHandler
  \/ Finally
  \/ MainExcept
  \/ MainDone

Spec == Init /\ [][Next]_vars

\* every step of the job blocks until it completes; the process is
\* single-threaded, so a step that is enabled is taken
FairSpec == Spec /\ WF_vars(Next)

NextKill == Next \/ KillProcess

SpecKill == Init /\ [][NextKill]_vars

(***************************************************************************)
(* format_resource_text on its own: every payload over the six keys.       *)
(***************************************************************************)
Absent == [t |-> "absent", v |-> ""]

\* the dict holding the keys whose option is not Absent
DictOf(o) ==
  Dict([k \in { key \in DOMAIN o : o[key] # Absent } |-> o[k]])

FormatInputs ==
  { DictOf([instance_type |-> a, state |-> b, environment |-> c,
            team |-> d, region |-> e, has_public_ip |-> f]) :
      a \in { Absent, PyS("t3.micro") },
      b \in { Absent, PyS("running"), PyNone },
      c \in { Absent, PyS("production") },
      d \in { Absent, PyS("data") },
      e \in { Absent, PyS("us-east-1"), PyS("") },
      f \in { Absent, PyTrue, PyFalse, PyNone, PyS("no") } }
  \cup { NoPayload }

FormatInit ==
  /\ pc = "format"
  /\ Idle
  /\ start = {}
  /\ durable = {}
  /\ view = {}
  /\ nextId = 1
  /\ fmtIn \in FormatInputs
  /\ fmtOut = << >>
  /\ seedPass = 0
  /\ afterOnce = {}

\* one call of format_resource_text
FormatCall ==
  /\ pc = "format"
  /\ fmtOut' = format_resource_text(fmtIn)
  /\ pc' = "formatted"
  /\ UNCHANGED << model, conn, dbVars, loopVars, exc, fault, exitCode,
                  counts, issued, start, fmtIn, seedPass, afterOnce >>

FormatNext == FormatCall

SpecFormat == FormatInit /\ [][FormatNext]_vars

(***************************************************************************)
(* The seed inserts on their own: the three INSERT statements executed     *)
(* twice in a row on any table that satisfies the unique constraint.       *)
(***************************************************************************)
SeedPairs == { << sample_resources[k][1], sample_resources[k][2] >> : k \in 1..3 }

\* candidate rows: one per sample pair and one foreign row
CandidateRid(k) == IF k <= 3 THEN sample_resources[k][2] ELSE ExternalRid(1)

NoRow == [present |-> FALSE, data |-> NoPayload, emb |-> NullEmbedding]

RowOptions ==
  { NoRow } \cup
  { [present |-> TRUE, data |-> d, emb |-> e] :
      d \in { FullPayload, PartialPayload },
      e \in { NullEmbedding, StaleEmbedding } }

SeedStartTables ==
  { { Row(Cardinality({ j \in 1..k : o[j].present }), "ec2_instance",
          CandidateRid(k), o[k].data, o[k].emb) : k \in { j \in 1..4 : o[j].present } }
    : o \in [1..4 -> RowOptions] }

SeedInit ==
  /\ pc = "seed_pass"
  /\ Idle
  /\ start \in SeedStartTables
  /\ durable = start
  /\ view = start
  /\ nextId = Cardinality(start) + 1
  /\ fmtIn = NoPayload
  /\ fmtOut = << >>
  /\ seedPass = 1
  /\ afterOnce = {}

\* one INSERT of the loop over sample_resources, on the first or second pass
SeedPassInsert ==
  /\ pc = "seed_pass"
  /\ view' = SeedInsertStmt(view, nextId, seedK)
  /\ nextId' = nextId + 1
  /\ issued' = issued \cup {"insert"}
  /\ IF seedK < Len(sample_resources)
     THEN /\ seedK' = seedK + 1
          /\ UNCHANGED << pc, seedPass, afterOnce >>
     ELSE /\ seedK' = 1
          /\ seedPass' = seedPass + 1
          /\ afterOnce' = IF seedPass = 1 THEN view' ELSE afterOnce
          /\ pc' = IF seedPass = 1 THEN "seed_pass" ELSE "seed_passes_done"
  /\ UNCHANGED << model, conn, durable, resources, i, vec, exc, fault,
                  exitCode, counts, start, fmtIn, fmtOut >>

SeedNext == SeedPassInsert

SpecSeed == SeedInit /\ [][SeedNext]_vars

(***************************************************************************)
(* Properties.                                                             *)
(***************************************************************************)
AllNull(tbl) == \A r \in tbl : r.emb.isnull
NoneNull(tbl) == \A r \in tbl : ~r.emb.isnull

\* the table with the embedding of every row computed from its payload
WithAllEmbeddings(tbl) ==
  { [r EXCEPT !.emb = Encode(format_resource_text(r.data))] : r \in tbl }

\* phase of the job in the terms of the specification's state machine:
\* the last milestone the process has passed
Phase ==
  IF pc = "exited" THEN (IF exitCode = 0 THEN "DONE" ELSE "FAILED")
  ELSE IF exc /\ pc \in {"except", "finally", "main_except"} THEN "FAILED"
  ELSE IF pc = "main" THEN "INIT"
  ELSE IF pc \in {"load_model", "connect"} THEN "MODEL_LOADING"
  ELSE IF pc = "select" THEN "CONNECTED"
  ELSE IF pc \in {"seed", "seed_commit"} THEN "SEEDING"
  ELSE IF pc \in {"embed", "update", "commit"} THEN "PROCESSING"
  ELSE IF pc = "verify" THEN "COMMITTED"
  ELSE IF pc \in {"finally", "main_done"} THEN "VERIFIED"
  ELSE "NONE"

\* C1: when get_embedding raises on a row inside update_embeddings, the
\* transaction is rolled back and no commit is issued, the error reaches
\* main and the process exits with status 1; the durable table is the
\* starting table, so a table that started all-null has no embedding.
C1_EmbeddingFailureRollsBack ==
  (fault = "embed" /\ pc \in {"finally", "main_except", "exited"}) =>
     /\ exc
     /\ "rollback" \in issued
     /\ "commit" \notin issued
     /\ durable = start
     /\ (AllNull(start) => AllNull(durable))
     /\ (pc = "exited" => exitCode = 1)

\* the embedding of the second of three rows failed after the first row's
\* UPDATE had been issued, and the process has exited
C1_Witness ==
  /\ fault = "embed"
  /\ pc = "exited"
  /\ Len(resources) = 3
  /\ i = 2
  /\ "update" \in issued
  /\ AllNull(start)

\* C2: on a table of N >= 1 rows without embedding and with no failing
\* step, the run ends with every row holding an embedding, the verification
\* counts total = with_embeddings = N, and exit status 0.
C2_SuccessfulRun ==
  (pc = "exited" /\ fault = "none" /\ start # {} /\ AllNull(start)) =>
     /\ exitCode = 0
     /\ Cardinality(durable) = Cardinality(start)
     /\ NoneNull(durable)
     /\ counts = << Cardinality(start), Cardinality(start), Cardinality(start) >>

\* a three-row table without embeddings was processed to the end
C2_Witness ==
  /\ pc = "exited"
  /\ fault = "none"
  /\ Cardinality(start) = 3
  /\ AllNull(start)
  /\ exitCode = 0

\* C3: a run that starts on an empty table and meets no failure of the
\* environment ends with exactly the 3 seeded rows in the table, each with
\* a non-null embedding.
C3_SeededRowsGetEmbeddings ==
  (pc = "exited" /\ start = {} /\ fault = "none") =>
     /\ Pairs(durable) = SeedPairs
     /\ Cardinality(durable) = 3
     /\ NoneNull(durable)

PhaseStepOriginal ==
  Phase' # Phase =>
    << Phase, Phase' >> \in
      { << "INIT", "MODEL_LOADING" >>, << "MODEL_LOADING", "CONNECTED" >>,
        << "CONNECTED", "SEEDING" >>, << "CONNECTED", "PROCESSING" >>,
        << "SEEDING", "PROCESSING" >>, << "PROCESSING", "COMMITTED" >>,
        << "COMMITTED", "VERIFIED" >>, << "VERIFIED", "DONE" >>,
        << "MODEL_LOADING", "FAILED" >>, << "CONNECTED", "FAILED" >>,
        << "PROCESSING", "FAILED" >> }

PhaseStepAmended ==
  \/ PhaseStepOriginal
  \/ << Phase, Phase' >> \in
       { << "SEEDING", "FAILED" >>, << "COMMITTED", "FAILED" >> }

Terminates == <>(pc = "exited" /\ Phase \in {"DONE", "FAILED"})

\* C4 as stated: the phases are visited in the order INIT, MODEL_LOADING,
\* CONNECTED, (SEEDING), PROCESSING, COMMITTED, VERIFIED, the run ends in
\* DONE or FAILED, and FAILED is entered only from MODEL_LOADING, CONNECTED
\* or PROCESSING.
C4_PhaseOrderOriginal == [][PhaseStepOriginal]_vars /\ Terminates

\* C4 amended: the same order and termination, and FAILED is entered only
\* from MODEL_LOADING, CONNECTED, SEEDING, PROCESSING or COMMITTED.
C4_PhaseOrder == [][PhaseStepAmended]_vars /\ Terminates

\* a run that failed in verification, after the commit
C4_Witness ==
  /\ pc = "exited"
  /\ Phase = "FAILED"
  /\ fault = "verify"
  /\ "commit" \in issued

\* C5: once update_embeddings has returned or propagated, the connection
\* it opened is closed; no terminal state has an open connection.
C5_ConnectionClosed ==
  (pc \in {"main_except", "main_done", "exited"}) =>
     /\ conn # "open"
     /\ (fault \notin {"load", "connect"} => conn = "closed")

\* the routine left through an exception raised in the row loop and the
\* connection it had opened is closed
C5_Witness ==
  /\ pc = "main_except"
  /\ exc
  /\ fault = "update"
  /\ conn = "closed"

\* C6: when load_model fails, no connection is opened, no statement is
\* issued, the table is untouched and the process exits with status 1.
C6_LoadFailureNoDatabaseWork ==
  (fault = "load") =>
     /\ pc \in {"main_except", "exited"}
     /\ conn = "none"
     /\ issued = {}
     /\ durable = start
     /\ (pc = "exited" => exitCode = 1)

\* the model failed to load on a non-empty table and the process exited
C6_Witness ==
  /\ fault = "load"
  /\ pc = "exited"
  /\ start # {}

\* C7: the seed inserts never produce a duplicate (resource_type,
\* resource_id) pair and leave every existing row unchanged; after the
\* first pass the pairs are the starting pairs plus the seed pairs, and the
\* second pass leaves the same set of pairs.
C7_SeedInsertsIdempotent ==
  (pc \in {"seed_pass", "seed_passes_done"}) =>
     /\ Cardinality(Pairs(view)) = Cardinality(view)
     /\ start \subseteq view
     /\ (seedPass >= 2 => Pairs(afterOnce) = Pairs(start) \cup SeedPairs)
     /\ (pc = "seed_passes_done" => Pairs(view) = Pairs(afterOnce))

\* both passes ran on a table that already held one seed pair (with an
\* embedding) and lacked another
C7_Witness ==
  /\ pc = "seed_passes_done"
  /\ \E r \in start : << r.rtype, r.rid >> \in SeedPairs /\ ~r.emb.isnull
  /\ SeedPairs \ Pairs(start) # {}

SlotKeys == << "instance_type", "state", "environment", "team", "region" >>
SlotLabels == << "Instance Type", "State", "Environment", "Team", "Region" >>

\* C8: for a dict payload the text has the header and the six slots in the
\* order Instance Type, State, Environment, Team, Region, Public IP; each
\* of the first five shows the value of its field, or Unknown when the
\* field is missing; Public IP shows Yes when has_public_ip is true and No
\* when it is absent or false.
C8_FormatSlots ==
  (pc = "formatted" /\ fmtIn.kind = "dict") =>
     /\ Len(fmtOut) = 7
     /\ fmtOut[1] = "EC2 Instance Configuration:"
     /\ \A k \in 1..5 :
          fmtOut[k + 1] =
            SlotLabels[k] \o ": " \o
              (IF SlotKeys[k] \in DOMAIN fmtIn.items
               THEN PyStr(fmtIn.items[SlotKeys[k]])
               ELSE "Unknown")
     /\ ("has_public_ip" \notin DOMAIN fmtIn.items => fmtOut[7] = "Public IP: No")
     /\ ("has_public_ip" \in DOMAIN fmtIn.items =>
           /\ (fmtIn.items["has_public_ip"] = PyTrue => fmtOut[7] = "Public IP: Yes")
           /\ (fmtIn.items["has_public_ip"] = PyFalse => fmtOut[7] = "Public IP: No"))

\* a payload with team present, region missing and no has_public_ip
C8_Witness ==
  /\ pc = "formatted"
  /\ fmtIn.kind = "dict"
  /\ DOMAIN fmtIn.items = {"instance_type", "team"}
  /\ fmtOut[5] = "Team: data"
  /\ fmtOut[6] = "Region: Unknown"
  /\ fmtOut[7] = "Public IP: No"

\* C9: on a non-empty table the durable content is, at every point of every
\* run and after a kill at any step, either the starting content or the
\* starting content with the embedding of every row set.
C9_AllOrNothing ==
  (start # {} /\ pc \in Running \cup {"exited", "killed"}) =>
     \/ durable = start
     \/ durable = WithAllEmbeddings(start)

\* the process was killed after the UPDATE of the first of three rows
C9_Witness ==
  /\ pc = "killed"
  /\ Len(resources) = 3
  /\ i = 2
  /\ "update" \in issued
  /\ "commit" \notin issued
  /\ durable = start

\* C10: when verify_embeddings raises after the commit, the embeddings of
\* the run stay committed although the handler rolls back, the error
\* reaches main and the process exits with status 1.
C10_VerifyFailureAfterCommit ==
  (fault = "verify" /\ pc \in {"finally", "main_except", "main_done", "exited"}) =>
     /\ exc
     /\ "commit" \in issued
     /\ "rollback" \in issued
     /\ durable = WithAllEmbeddings(start)
     /\ NoneNull(durable)
     /\ (counts # << >> => counts = CountQuery(durable))
     /\ (pc = "exited" => exitCode = 1)

\* the sample query of the verification failed on a three-row table after
\* the counts had been read, and the process has exited
C10_Witness ==
  /\ fault = "verify"
  /\ pc = "exited"
  /\ Cardinality(start) = 3
  /\ AllNull(start)
  /\ counts = << 3, 3, 3 >>
====
